---- MODULE Spec2Model ----
(***************************************************************************)
(* A model of crypto-mcp: the request cache in front of the CoinMarketCap  *)
(* gateway (makeApiRequest, buildCacheKey), the discover-top and           *)
(* discover-pick handlers, their ranking tail (filter, sort, slice) and    *)
(* the indicator functions (calcEMA, sma, rma, true range, trend).         *)
(*                                                                         *)
(* Text that reaches the cache key is a sequence of one-character strings, *)
(* so that JSON quoting and the key sort act on characters.  Numbers of    *)
(* the indicator engine are exact fractions <<numerator, denominator>>.    *)
(***************************************************************************)
EXTENDS Integers, Sequences, FiniteSets, TLC

VARIABLES
    apiCache,     \* Map<string, {ts, data}>: key -> entry
    now,          \* Date.now(), in ms
    call,         \* per invocation slot: the state of its makeApiRequest invocation
    calls,        \* history: the invocations so far with their times, the last possibly awaiting
    script,       \* the requests a scripted caller will make, in order
    pc,           \* where the discovery handler is: idle, listing, ticker, klines, rank, done
    args,         \* the handler's parsed parameters
    data,         \* listings?.data ?? []
    idx,          \* the index in data of the item the loop is at
    ticker,       \* the ticker payload of the item the loop is at
    summaries,    \* the summaries pushed so far
    out,          \* what the handler returned
    fetchLog,     \* the upstream fetches this run issued, in order: <<kind, index, outcome>>
    klines,       \* a klines payload given to the indicator engine
    snap,         \* what the handler derived from klines
    series,       \* arr: a number series given to calcEMA, sma and rma
    period,       \* n: the period they are called with
    smoothed      \* what they returned

gwVars == <<apiCache, now, call, calls, script>>
pipeVars == <<pc, args, data, idx, ticker, summaries, out, fetchLog>>
indVars == <<klines, snap, series, period, smoothed>>
vars == <<apiCache, now, call, calls, script, pc, args, data, idx, ticker,
          summaries, out, fetchLog, klines, snap, series, period, smoothed>>

----------------------------------------------------------------------------
(* Bounds of the model *)

MaxCalls == 3        \* makeApiRequest invocations per behaviour of the gateway
MaxSummaries == 3    \* summaries given to the ranking tail
MaxTime == 15000     \* the clock stops advancing once it has reached this
TickMs == 7500       \* the clock advances in steps of this many ms

NCallers == 2        \* invocation slots of makeApiRequest
MaxSeriesLen == 4    \* length of the series given to the smoothing functions alone
MaxPeriod == 3       \* periods they are called with
MantissaBits == 4    \* significant bits kept by the rounded arithmetic

(* Program constants *)

CACHE_TTL_MS == 15000

----------------------------------------------------------------------------
(* Text *)

\* The characters the model uses, in increasing UTF-16 code unit order.
CodeUnits ==
    << "\"", ",", "-", "/", "0", "1", "2", "3", "4", "5", "6", "7", "8", "9",
       ":", "D", "S", "U", "\\", "_", "a", "c", "d", "e", "g", "i", "k", "l",
       "m", "n", "o", "p", "q", "r", "s", "t", "u", "v", "y", "{", "|", "}" >>

CodeUnit(c) == CHOOSE i \in 1..Len(CodeUnits) : CodeUnits[i] = c

\* a < b as JavaScript compares strings: by code units, a proper prefix first.
RECURSIVE StrLess(_, _)
StrLess(a, b) ==
    IF b = <<>> THEN FALSE
    ELSE IF a = <<>> THEN TRUE
    ELSE IF Head(a) = Head(b) THEN StrLess(Tail(a), Tail(b))
    ELSE CodeUnit(Head(a)) < CodeUnit(Head(b))

RECURSIVE Concat(_)
Concat(ss) == IF ss = <<>> THEN <<>> ELSE Head(ss) \o Concat(Tail(ss))

Digit(d) == <<CodeUnits[CodeUnit("0") + d]>>

RECURSIVE NatToStr(_)
NatToStr(n) == IF n < 10 THEN Digit(n) ELSE NatToStr(n \div 10) \o Digit(n % 10)

\* Number-to-string of an integer.
IntToStr(n) == IF n < 0 THEN <<"-">> \o NatToStr(-n) ELSE NatToStr(n)

----------------------------------------------------------------------------
(* Parameter values: what the tool handlers pass to makeApiRequest.  The   *)
(* pass-through tools pass strings; the discovery handlers pass            *)
(* limit: parseInt(...), an integer or NaN.                                *)

StrV(s) == [t |-> "str", s |-> s, n |-> 0]
NumV(n) == [t |-> "num", s |-> <<>>, n |-> n]
NaNV == [t |-> "nan", s |-> <<>>, n |-> 0]

\* JSON.stringify of a string: quoted, with quote and backslash escaped.
JSONQuote(s) ==
    <<"\"">>
    \o Concat([i \in 1..Len(s) |->
                 IF s[i] \in {"\"", "\\"} THEN <<"\\", s[i]>> ELSE <<s[i]>>])
    \o <<"\"">>

\* JSON.stringify of a parameter value; NaN serialises as null.
JSONValue(v) ==
    CASE v.t = "str" -> JSONQuote(v.s)
      [] v.t = "num" -> IntToStr(v.n)
      [] v.t = "nan" -> <<"n", "u", "l", "l">>

\* JSON.stringify of an object given as its properties in enumeration order.
RECURSIVE JSONMembers(_)
JSONMembers(props) ==
    IF props = <<>> THEN <<>>
    ELSE JSONQuote(Head(props).name) \o <<":">> \o JSONValue(Head(props).val)
         \o (IF Len(props) > 1 THEN <<",">> ELSE <<>>)
         \o JSONMembers(Tail(props))

JSONStringify(props) == <<"{">> \o JSONMembers(props) \o <<"}">>

\* Array.prototype.sort() of distinct strings: insertion into increasing order.
RECURSIVE InsertKey(_, _)
InsertKey(k, sorted) ==
    IF sorted = <<>> THEN <<k>>
    ELSE IF StrLess(k, Head(sorted)) THEN <<k>> \o sorted
    ELSE <<Head(sorted)>> \o InsertKey(k, Tail(sorted))

RECURSIVE SortKeys(_)
SortKeys(ks) == IF ks = <<>> THEN <<>> ELSE InsertKey(Head(ks), SortKeys(Tail(ks)))

\* params[key] of a record given as its properties in insertion order.
Lookup(params, key) ==
    params[CHOOSE i \in 1..Len(params) : params[i].name = key].val

\* buildCacheKey without the sort: the parameters are serialised in insertion order.
buildCacheKeyUnsorted(endpoint, params) ==
    endpoint \o <<"|">> \o JSONStringify(params)

\* buildCacheKey without the endpoint in the key.
buildCacheKeyNoEndpoint(endpoint, params) ==
    LET keys == SortKeys([i \in 1..Len(params) |-> params[i].name])
        sortedParams == [i \in 1..Len(keys) |->
                           [name |-> keys[i], val |-> Lookup(params, keys[i])]]
    IN  <<"|">> \o JSONStringify(sortedParams)

buildCacheKey(endpoint, params) ==
    LET keys == SortKeys([i \in 1..Len(params) |-> params[i].name])
        sortedParams == [i \in 1..Len(keys) |->
                           [name |-> keys[i], val |-> Lookup(params, keys[i])]]
    IN  endpoint \o <<"|">> \o JSONStringify(sortedParams)

----------------------------------------------------------------------------
(* Requests *)

Chars_limit == <<"l", "i", "m", "i", "t">>
Chars_convert == <<"c", "o", "n", "v", "e", "r", "t">>
Chars_USD == <<"U", "S", "D">>
Chars_20 == <<"2", "0">>
\* A currency string that spells the JSON text of two parameters.
Chars_Tricky ==
    <<"U", "S", "D", "\"", ",", "\"", "l", "i", "m", "i", "t", "\"", ":", "\"", "2", "0">>

EP_LISTINGS ==
    << "/", "c", "r", "y", "p", "t", "o", "c", "u", "r", "r", "e", "n", "c", "y",
       "/", "l", "i", "s", "t", "i", "n", "g", "s", "/", "l", "a", "t", "e", "s", "t" >>
EP_MAP ==
    << "/", "c", "r", "y", "p", "t", "o", "c", "u", "r", "r", "e", "n", "c", "y",
       "/", "m", "a", "p" >>

Endpoints == {EP_LISTINGS, EP_MAP}

Prop(name, val) == [name |-> name, val |-> val]

LimitValues == {NumV(20), StrV(Chars_20), NaNV}
ConvertValues == {StrV(Chars_USD), StrV(Chars_Tricky)}

\* Parameter records: every insertion order of every choice of limit and convert.
ParamRecords ==
    {<<>>}
    \cup {<<Prop(Chars_limit, l)>> : l \in LimitValues}
    \cup {<<Prop(Chars_convert, c)>> : c \in ConvertValues}
    \cup {<<Prop(Chars_limit, l), Prop(Chars_convert, c)>> :
            l \in LimitValues, c \in ConvertValues}
    \cup {<<Prop(Chars_convert, c), Prop(Chars_limit, l)>> :
            l \in LimitValues, c \in ConvertValues}

Request(endpoint, params) == [endpoint |-> endpoint, params |-> params]

KeyRequests == {Request(e, p) : e \in Endpoints, p \in ParamRecords}

\* The requests of the gateway specification: the discovery handlers' parameters
\* in both orders, on two endpoints.
GwRequests ==
    {r \in KeyRequests :
        /\ Len(r.params) = 2
        /\ \A i \in 1..2 : r.params[i].val \in {NumV(20), StrV(Chars_USD)}}

----------------------------------------------------------------------------
(* Upstream payloads *)

Null == <<>>          \* null / undefined / absent
Some(x) == <<x>>      \* a present value
Val(o) == o[1]

\* JSON null where the code tells it from a missing member: item.cmc_rank is
\* copied as it comes, undefined (Null) when missing, null when the body says null.
JSNull == <<"null", "null">>
\* ToNumber of the relational operators: null is 0.
ToNumber(v) == IF v = JSNull THEN 0 ELSE Val(v)

Item(symbol, rank) == [symbol |-> symbol, cmc_rank |-> rank]
\* A listings body: data is the item array, or absent (an error-shaped body).
ListingJSON(d) == [data |-> d]

GwPayloads ==
    { ListingJSON(Some(<<Item("BTC", Some(1))>>)),
      ListingJSON(Some(<<Item("ETH", Some(2))>>)) }

----------------------------------------------------------------------------
(* makeApiRequest and its cache *)

EmptyCache == [k \in {} |-> [ts |-> 0, data |-> Null]]

\* CacheFresh with <= for <: an entry exactly TTL old still counts as valid.
CacheFreshInclusive(cache, key, t) ==
    key \in DOMAIN cache /\ t - cache[key].ts <= CACHE_TTL_MS

\* cached && Date.now() - cached.ts < CACHE_TTL_MS
CacheFresh(cache, key, t) ==
    key \in DOMAIN cache /\ t - cache[key].ts < CACHE_TTL_MS

\* CacheSet that keeps what it has: a store for a key with an entry is dropped.
CacheSetKeepsFirst(cache, key, t, json) ==
    [k \in DOMAIN cache \cup {key} |->
        IF k \in DOMAIN cache THEN cache[k] ELSE [ts |-> t, data |-> json]]

\* apiCache.set(key, { ts: Date.now(), data: json })
CacheSet(cache, key, t, json) ==
    [k \in DOMAIN cache \cup {key} |->
        IF k = key THEN [ts |-> t, data |-> json] ELSE cache[k]]

\* CacheOnFailure with a write: a failed fetch refreshes the entry it found expired.
CacheOnFailureRefreshes(cache, key, t) ==
    [k \in DOMAIN cache |->
        IF k = key THEN [ts |-> t, data |-> cache[k].data] ELSE cache[k]]

\* The catch block: the cache is not touched.
CacheOnFailure(cache, key, t) == cache

Callers == 1..NCallers

IdleCall == [st |-> "idle", req |-> Request(<<>>, <<>>), key |-> <<>>, ret |-> Null]

\* The invocation in slot c up to its first await: key, lookup, and either the
\* cached payload returned or the upstream fetch issued.
Begin(c, r) ==
    /\ call[c].st # "await"
    /\ LET key == buildCacheKey(r.endpoint, r.params)
       IN  IF CacheFresh(apiCache, key, now)
           THEN call' = [call EXCEPT ![c] =
                    [st |-> "hit", req |-> r, key |-> key,
                     ret |-> Some(apiCache[key].data)]]
           ELSE call' = [call EXCEPT ![c] =
                    [st |-> "await", req |-> r, key |-> key, ret |-> Null]]
    /\ UNCHANGED <<apiCache, now>>

\* response.ok and a parsable body: store and return the payload.
FetchOk(c, json) ==
    /\ call[c].st = "await"
    /\ apiCache' = CacheSet(apiCache, call[c].key, now, json)
    /\ call' = [call EXCEPT ![c].st = "ok", ![c].ret = Some(json)]
    /\ UNCHANGED now

FailureKinds == {"status", "network", "body"}

\* FetchFail with a fallback: the catch block returns the entry it has, however old.
FetchFailServesStale(c, kind) ==
    /\ call[c].st = "await"
    /\ kind \in FailureKinds
    /\ apiCache' = apiCache
    /\ call' = [call EXCEPT ![c].st = "fail",
                            ![c].ret = IF call[c].key \in DOMAIN apiCache
                                       THEN Some(apiCache[call[c].key].data)
                                       ELSE Null]
    /\ UNCHANGED now

\* A non-success status, a rejected fetch or an unparsable body: all reach the
\* catch block, which returns null.
FetchFail(c, kind) ==
    /\ call[c].st = "await"
    /\ kind \in FailureKinds
    /\ apiCache' = CacheOnFailure(apiCache, call[c].key, now)
    /\ call' = [call EXCEPT ![c].st = "fail", ![c].ret = Null]
    /\ UNCHANGED now

\* Time passes.
Clock ==
    /\ now < MaxTime
    /\ now' = now + TickMs

GwInit ==
    /\ apiCache = EmptyCache
    /\ now = 0
    /\ call = [c \in Callers |-> IdleCall]
    /\ calls = <<>>

\* A history entry: the invocation with its lookup time and its completion time.
Logged(c, t0, t1) ==
    [st |-> c.st, req |-> c.req, key |-> c.key, ret |-> c.ret, t0 |-> t0, t1 |-> t1]

NoneAwaiting == \A c \in Callers : call[c].st # "await"

----------------------------------------------------------------------------
(* Numbers: exact fractions <<numerator, denominator>>, denominator > 0, in *)
(* lowest terms.  Only finite numbers are modelled.                        *)

Abs(n) == IF n < 0 THEN -n ELSE n

RECURSIVE Gcd(_, _)
Gcd(a, b) == IF b = 0 THEN a ELSE Gcd(b, a % b)

Frac(n, d) ==
    LET g == Gcd(Abs(n), Abs(d))
        sgn == IF d < 0 THEN -1 ELSE 1
    IN  <<(sgn * n) \div g, (sgn * d) \div g>>

Num(n) == <<n, 1>>
FAdd(x, y) == Frac(x[1] * y[2] + y[1] * x[2], x[2] * y[2])
FSub(x, y) == Frac(x[1] * y[2] - y[1] * x[2], x[2] * y[2])
FMul(x, y) == Frac(x[1] * y[1], x[2] * y[2])
FDiv(x, y) == Frac(x[1] * y[2], x[2] * y[1])
FLt(x, y) == x[1] * y[2] < y[1] * x[2]
FLe(x, y) == x[1] * y[2] <= y[1] * x[2]
FAbs(x) == <<Abs(x[1]), x[2]>>
FMax(x, y) == IF FLt(x, y) THEN y ELSE x
FZero == Num(0)

----------------------------------------------------------------------------
(* Indicator engine.  Arrays are 1-based here: arr[i] of the source is      *)
(* arr[i + 1].                                                              *)

\* The loops below run over an index range i..j; the range is walked in two
\* halves, first half first, which applies the loop body to the elements in
\* the order of the source.  TLC evaluates operator arguments on demand; the
\* test half = half makes it compute the first half's value before the second
\* half is entered, which keeps the depth of the evaluation logarithmic.

\* The loop of calcEMA over arr[i..j], entered with ema.
RECURSIVE EmaLoop(_, _, _, _, _)
EmaLoop(arr, i, j, ema, k) ==
    IF i > j THEN ema
    ELSE IF i = j THEN FAdd(FMul(arr[i], k), FMul(ema, FSub(Num(1), k)))
    ELSE LET mid == (i + j) \div 2
             half == EmaLoop(arr, i, mid, ema, k)
         IN  IF half = half THEN EmaLoop(arr, mid + 1, j, half, k) ELSE half

\* calcEMA with <= for <: a series of exactly n values gives null.
calcEMAStrict(arr, n) ==
    IF Len(arr) <= n THEN Null
    ELSE Some(EmaLoop(arr, 2, Len(arr), arr[1], Frac(2, n + 1)))

calcEMA(arr, n) ==
    IF Len(arr) < n THEN Null
    ELSE Some(EmaLoop(arr, 2, Len(arr), arr[1], Frac(2, n + 1)))

\* The summing loop over arr[i..j].
RECURSIVE SumLoop(_, _, _)
SumLoop(arr, i, j) ==
    IF i > j THEN FZero
    ELSE IF i = j THEN arr[i]
    ELSE LET mid == (i + j) \div 2
         IN  FAdd(SumLoop(arr, i, mid), SumLoop(arr, mid + 1, j))

\* sma over the wrong window: the first n elements.
smaFromStart(arr, n) ==
    IF Len(arr) < n THEN Null
    ELSE Some(FDiv(SumLoop(arr, 1, n), Num(n)))

sma(arr, n) ==
    IF Len(arr) < n THEN Null
    ELSE Some(FDiv(SumLoop(arr, Len(arr) - n + 1, Len(arr)), Num(n)))

\* The smoothing loop of rma over arr[i..j], entered with val.
RECURSIVE RmaLoop(_, _, _, _, _)
RmaLoop(arr, i, j, val, alpha) ==
    IF i > j THEN val
    ELSE IF i = j THEN FAdd(FMul(alpha, arr[i]), FMul(FSub(Num(1), alpha), val))
    ELSE LET mid == (i + j) \div 2
             half == RmaLoop(arr, i, mid, val, alpha)
         IN  IF half = half THEN RmaLoop(arr, mid + 1, j, half, alpha) ELSE half

rma(arr, n) ==
    IF Len(arr) < n THEN Null
    ELSE Some(RmaLoop(arr, n + 1, Len(arr),
                      FDiv(SumLoop(arr, 1, n), Num(n)), Frac(1, n)))

\* A number is a binary floating-point value: each arithmetic operation
\* returns the representable value nearest to the exact result, ties to the
\* even mantissa.  Normalize scales n/d by powers of two into
\* [2^(bits-1), 2^bits) and returns <<n, d, exponent>>.
RECURSIVE Normalize(_, _, _, _)
Normalize(n, d, e, bits) ==
    IF n >= d * 2^bits THEN Normalize(n, d * 2, e + 1, bits)
    ELSE IF n < d * 2^(bits - 1) THEN Normalize(n * 2, d, e - 1, bits)
    ELSE <<n, d, e>>

\* x rounded to bits significant bits; bits = 0 leaves x exact.
Rnd(x, bits) ==
    IF bits = 0 \/ x[1] = 0 THEN x
    ELSE LET nd == Normalize(Abs(x[1]), x[2], 0, bits)
             q == nd[1] \div nd[2]
             r == nd[1] % nd[2]
             m == IF 2 * r > nd[2] THEN q + 1
                  ELSE IF 2 * r = nd[2] THEN q + (q % 2)
                  ELSE q
             sgn == IF x[1] < 0 THEN -1 ELSE 1
         IN  IF nd[3] >= 0 THEN Frac(sgn * m * 2^nd[3], 1)
             ELSE Frac(sgn * m, 2^(0 - nd[3]))

\* let sum = 0; for (i < n) sum += arr[i], each addition rounded
RECURSIVE SumRounded(_, _, _)
SumRounded(arr, i, bits) ==
    IF i = 0 THEN FZero
    ELSE Rnd(FAdd(SumRounded(arr, i - 1, bits), arr[i]), bits)

\* val of rma once i elements are consumed (i >= n): the seed sum / n, then
\* alpha * arr[i] + (1 - alpha) * val with alpha = 1 / n.
RECURSIVE RmaVal(_, _, _, _)
RmaVal(arr, n, i, bits) ==
    IF i = n THEN Rnd(FDiv(SumRounded(arr, n, bits), Num(n)), bits)
    ELSE LET alpha == Rnd(Frac(1, n), bits)
             prev == RmaVal(arr, n, i - 1, bits)
         IN  Rnd(FAdd(Rnd(FMul(alpha, arr[i]), bits),
                      Rnd(FMul(Rnd(FSub(Num(1), alpha), bits), prev), bits)), bits)

\* The values val takes in rma(arr, n), seed first; null when rma returns null.
RmaTrace(arr, n, bits) ==
    IF Len(arr) < n THEN Null
    ELSE Some([k \in 1..(Len(arr) - n + 1) |-> RmaVal(arr, n, n + k - 1, bits)])

\* Program constants of the discovery handlers
ATR_PERIOD == 14
EMA_FAST == 50
EMA_SLOW == 200
SMA_PERIOD == 200

STABLES == {"USDT", "USDC", "BUSD", "TUSD", "DAI", "FDUSD"}

\* A candle of the klines payload, after parseFloat of k[2], k[3], k[4].
Candle(high, low, close) == [high |-> high, low |-> low, close |-> close]

closesOf(ks) == [i \in 1..Len(ks) |-> ks[i].close]
highsOf(ks) == [i \in 1..Len(ks) |-> ks[i].high]
lowsOf(ks) == [i \in 1..Len(ks) |-> ks[i].low]

\* closes[closes.length - 1] ?? null
LastClose(closes) == IF closes = <<>> THEN Null ELSE Some(closes[Len(closes)])

\* TrueRange without the i > 0 test: the first candle is compared with closes[-1] ?? 0.
TrueRangeFromZero(highs, lows, closes) ==
    [i \in 1..Len(closes) |->
        LET prev == IF i > 1 THEN closes[i - 1] ELSE FZero
        IN  FMax(FMax(FSub(highs[i], lows[i]), FAbs(FSub(highs[i], prev))),
                 FAbs(FSub(lows[i], prev)))]

\* The tr array: one value per candle, the previous-close terms from the second on.
TrueRange(highs, lows, closes) ==
    [i \in 1..Len(closes) |->
        LET hl == FSub(highs[i], lows[i])
            hc == IF i > 1 THEN FAbs(FSub(highs[i], closes[i - 1])) ELSE FZero
            lc == IF i > 1 THEN FAbs(FSub(lows[i], closes[i - 1])) ELSE FZero
        IN  FMax(FMax(hl, hc), lc)]

\* A number-or-null as a condition: null and 0 are falsy.
Truthy(o) == o # Null /\ Val(o)[1] # 0

\* atr && lastClose ? (atr / lastClose) * 100 : null
AtrPct(atr, lastClose) ==
    IF Truthy(atr) /\ Truthy(lastClose)
    THEN Some(FMul(FDiv(Val(atr), Val(lastClose)), Num(100)))
    ELSE Null

\* Trend with >= for >: equal averages count as up.
TrendGe(ema50, ema200, sma200, lastClose) ==
    IF ema50 # Null /\ ema200 # Null
    THEN (IF FLe(Val(ema200), Val(ema50)) THEN Some("up") ELSE Some("down"))
    ELSE IF sma200 # Null /\ lastClose # Null
    THEN (IF FLt(Val(sma200), Val(lastClose)) THEN Some("up") ELSE Some("down"))
    ELSE Null

\* Trend with its two tests swapped: the price-vs-SMA test comes first.
TrendSmaFirst(ema50, ema200, sma200, lastClose) ==
    IF sma200 # Null /\ lastClose # Null
    THEN (IF FLt(Val(sma200), Val(lastClose)) THEN Some("up") ELSE Some("down"))
    ELSE IF ema50 # Null /\ ema200 # Null
    THEN (IF FLt(Val(ema200), Val(ema50)) THEN Some("up") ELSE Some("down"))
    ELSE Null

\* let trend = null; if (ema50 !== null && ema200 !== null) ... else if ...
Trend(ema50, ema200, sma200, lastClose) ==
    IF ema50 # Null /\ ema200 # Null
    THEN (IF FLt(Val(ema200), Val(ema50)) THEN Some("up") ELSE Some("down"))
    ELSE IF sma200 # Null /\ lastClose # Null
    THEN (IF FLt(Val(sma200), Val(lastClose)) THEN Some("up") ELSE Some("down"))
    ELSE Null

\* Rating with >= for > and <= for <: the thresholds are inclusive.
RatingInclusive(trend, pct24h) ==
    IF trend = Some("up")
    THEN (IF pct24h # Null /\ FLe(Num(2), Val(pct24h)) THEN "strong_up"
          ELSE IF pct24h # Null /\ FLe(Num(1), Val(pct24h)) THEN "up"
          ELSE "neutral")
    ELSE IF trend = Some("down")
    THEN (IF pct24h # Null /\ FLe(Val(pct24h), Num(-2)) THEN "strong_down"
          ELSE IF pct24h # Null /\ FLe(Val(pct24h), Num(-1)) THEN "down"
          ELSE "neutral")
    ELSE "neutral"

\* The rating of a trend and a 24h percent change (rate() of the example runner).
Rating(trend, pct24h) ==
    IF trend = Some("up")
    THEN (IF pct24h # Null /\ FLt(Num(2), Val(pct24h)) THEN "strong_up"
          ELSE IF pct24h # Null /\ FLt(Num(1), Val(pct24h)) THEN "up"
          ELSE "neutral")
    ELSE IF trend = Some("down")
    THEN (IF pct24h # Null /\ FLt(Val(pct24h), Num(-2)) THEN "strong_down"
          ELSE IF pct24h # Null /\ FLt(Val(pct24h), Num(-1)) THEN "down"
          ELSE "neutral")
    ELSE "neutral"

\* What the handler derives from one klines payload.
Snapshot(ks) ==
    LET closes == closesOf(ks)
        lastClose == LastClose(closes)
        tr == TrueRange(highsOf(ks), lowsOf(ks), closes)
        atr == rma(tr, ATR_PERIOD)
        ema50 == calcEMA(closes, EMA_FAST)
        ema200 == calcEMA(closes, EMA_SLOW)
        sma200 == sma(closes, SMA_PERIOD)
    IN  [n |-> Len(closes), lastClose |-> lastClose, tr |-> tr, atr |-> atr,
         atrPct |-> AtrPct(atr, lastClose),
         ema50 |-> ema50, ema200 |-> ema200, sma200 |-> sma200,
         trend |-> Trend(ema50, ema200, sma200, lastClose)]

\* The ticker payload, after parseFloat of its two fields.
Ticker(pct, vol) == Some([priceChangePercent |-> pct, volume |-> vol])

\* The summary pushed for one listing item.
MakeSummary(symbol, lastClose, pct24h, vol24h, atrPct, trend, rank) ==
    [symbol |-> symbol, price |-> lastClose, pct24h |-> pct24h, vol24h |-> vol24h,
     atrPct |-> atrPct, trend |-> trend, rating |-> Rating(trend, pct24h),
     cmc |-> [rank |-> rank]]

Summarize(item, tk, sn) ==
    LET pct24h == IF tk # Null THEN Some(Val(tk).priceChangePercent) ELSE Null
        vol24h == IF tk # Null THEN Some(Val(tk).volume) ELSE Null
    IN  MakeSummary(item.symbol \o "USDT", sn.lastClose, pct24h, vol24h,
                    sn.atrPct, sn.trend, item.cmc_rank)

----------------------------------------------------------------------------
(* Ranking tail: filter, sort, slice *)

PosInf == <<1, 0>>     \* Number.POSITIVE_INFINITY, as a fraction over 0

ratingScore(r) ==
    CASE r = "strong_up" -> 4
      [] r = "up" -> 3
      [] r = "neutral" -> 2
      [] r = "down" -> 1
      [] r = "strong_down" -> 0

\* a.atrPct !== null ? a.atrPct : Number.POSITIVE_INFINITY
AtrOrInf(a) == IF a.atrPct # Null THEN Val(a.atrPct) ELSE PosInf
\* a.vol24h ?? 0
VolOrZero(a) == IF a.vol24h # Null THEN Val(a.vol24h) ELSE FZero
\* a.pct24h !== null ? Math.abs(a.pct24h) : 0
MoveOrZero(a) == IF a.pct24h # Null THEN FAbs(Val(a.pct24h)) ELSE FZero

\* cmp without the strategy test: both strategies compare ATR% before volume.
cmpAtrFirst(a, b, strategy) ==
    LET ra == ratingScore(a.rating)
        rb == ratingScore(b.rating)
    IN  IF rb # ra THEN Num(rb - ra)
        ELSE IF AtrOrInf(a) # AtrOrInf(b) THEN FSub(AtrOrInf(a), AtrOrInf(b))
        ELSE IF VolOrZero(b) # VolOrZero(a) THEN FSub(VolOrZero(b), VolOrZero(a))
        ELSE FSub(MoveOrZero(b), MoveOrZero(a))

\* cmp without its last key, the absolute 24h move.
cmpNoMove(a, b, strategy) ==
    LET ra == ratingScore(a.rating)
        rb == ratingScore(b.rating)
    IN  IF rb # ra THEN Num(rb - ra)
        ELSE IF strategy = "strong_up_high_vol"
        THEN (IF VolOrZero(b) # VolOrZero(a) THEN FSub(VolOrZero(b), VolOrZero(a))
              ELSE IF AtrOrInf(a) # AtrOrInf(b) THEN FSub(AtrOrInf(a), AtrOrInf(b))
              ELSE FZero)
        ELSE (IF AtrOrInf(a) # AtrOrInf(b) THEN FSub(AtrOrInf(a), AtrOrInf(b))
              ELSE IF VolOrZero(b) # VolOrZero(a) THEN FSub(VolOrZero(b), VolOrZero(a))
              ELSE FZero)

\* cmp of discover-pick: negative when a sorts before b.
cmp(a, b, strategy) ==
    LET ra == ratingScore(a.rating)
        rb == ratingScore(b.rating)
    IN  IF rb # ra THEN Num(rb - ra)
        ELSE IF strategy = "strong_up_high_vol"
        THEN (IF VolOrZero(b) # VolOrZero(a) THEN FSub(VolOrZero(b), VolOrZero(a))
              ELSE IF AtrOrInf(a) # AtrOrInf(b) THEN FSub(AtrOrInf(a), AtrOrInf(b))
              ELSE FSub(MoveOrZero(b), MoveOrZero(a)))
        ELSE (IF AtrOrInf(a) # AtrOrInf(b) THEN FSub(AtrOrInf(a), AtrOrInf(b))
              ELSE IF VolOrZero(b) # VolOrZero(a) THEN FSub(VolOrZero(b), VolOrZero(a))
              ELSE FSub(MoveOrZero(b), MoveOrZero(a)))

\* The comparator of discover-top: rating, ATR%, absolute 24h move.
cmpTop(a, b) ==
    LET ra == ratingScore(a.rating)
        rb == ratingScore(b.rating)
    IN  IF rb # ra THEN Num(rb - ra)
        ELSE IF AtrOrInf(a) # AtrOrInf(b) THEN FSub(AtrOrInf(a), AtrOrInf(b))
        ELSE FSub(MoveOrZero(b), MoveOrZero(a))

\* The comparator of a sort order: "discover-top" for discover-top, else the strategy
\* of discover-pick.
Compare(a, b, order) == IF order = "discover-top" THEN cmpTop(a, b) ELSE cmp(a, b, order)

\* Array.prototype.sort(comparator), which is stable: each element goes behind
\* every element already placed that does not compare greater than it.
RECURSIVE InsertStable(_, _, _)
InsertStable(x, sorted, order) ==
    IF sorted = <<>> THEN <<x>>
    ELSE IF Compare(Head(sorted), x, order)[1] > 0 THEN <<x>> \o sorted
    ELSE <<Head(sorted)>> \o InsertStable(x, Tail(sorted), order)

RECURSIVE SortFrom(_, _, _)
SortFrom(arr, sorted, order) ==
    IF arr = <<>> THEN sorted
    ELSE SortFrom(Tail(arr), InsertStable(Head(arr), sorted, order), order)

Sort(arr, order) == SortFrom(arr, <<>>, order)

\* PickFilter with true for false: an absent rank passes the rank test.
PickFilterAbsentRankPasses(sums, rankMax, atrPctMax) ==
    SelectSeq(sums,
        LAMBDA s :
            LET rankOk == IF s.cmc.rank # Null THEN ToNumber(s.cmc.rank) <= rankMax ELSE TRUE
                atrOk == IF s.atrPct # Null THEN FLe(Val(s.atrPct), atrPctMax) ELSE FALSE
            IN  rankOk /\ atrOk)

\* PickFilter with < for <=: the ATR% bound is exclusive.
PickFilterStrictAtr(sums, rankMax, atrPctMax) ==
    SelectSeq(sums,
        LAMBDA s :
            LET rankOk == IF s.cmc.rank # Null THEN ToNumber(s.cmc.rank) <= rankMax ELSE FALSE
                atrOk == IF s.atrPct # Null THEN FLt(Val(s.atrPct), atrPctMax) ELSE FALSE
            IN  rankOk /\ atrOk)

\* summaries.filter(s => rankOk && atrOk)
PickFilter(sums, rankMax, atrPctMax) ==
    SelectSeq(sums,
        LAMBDA s :
            LET rankOk == IF s.cmc.rank # Null THEN ToNumber(s.cmc.rank) <= rankMax ELSE FALSE
                atrOk == IF s.atrPct # Null THEN FLe(Val(s.atrPct), atrPctMax) ELSE FALSE
            IN  rankOk /\ atrOk)

Min(a, b) == IF a < b THEN a ELSE b
Max(a, b) == IF a < b THEN b ELSE a

\* SliceTo off by one: one entry too few.
SliceToShort(arr, end) ==
    LET k == IF end < 0 THEN Max(Len(arr) + end, 0) ELSE Min(end, Len(arr))
    IN  SubSeq(arr, 1, k - 1)

\* arr.slice(0, end): a negative end counts from the back.
SliceTo(arr, end) ==
    LET k == IF end < 0 THEN Max(Len(arr) + end, 0) ELSE Min(end, Len(arr))
    IN  SubSeq(arr, 1, k)

\* What discover-pick returns for the assembled summaries.
PickTail(sums, a) ==
    LET filtered == PickFilter(sums, a.rankMax, a.atrPctMax)
        sorted == Sort(filtered, a.strategy)
    IN  SliceTo(sorted, a.resultCount)

\* What discover-top returns for the assembled summaries.
TopTail(sums, a) ==
    SliceTo(Sort(sums, "discover-top"), a.resultCount)

\* What examples/run-discover-top.ts prints for the assembled summaries: the
\* filter of discover-pick, then the order of discover-top.
ExampleTail(sums, a) ==
    LET filtered == PickFilter(sums, a.rankMax, a.atrPctMax)
        sorted == Sort(filtered, "discover-top")
    IN  SliceTo(sorted, a.resultCount)

RankTail(variant, sums, a) ==
    IF variant = "pick" THEN PickTail(sums, a)
    ELSE IF variant = "run-discover-top" THEN ExampleTail(sums, a)
    ELSE TopTail(sums, a)

----------------------------------------------------------------------------
(* Inputs of the indicator engine: klines payloads *)

\* m candles closing at c, high and low a spread s away.
FlatCandles(m, c, s) == [i \in 1..m |-> Candle(FAdd(c, s), FSub(c, s), c)]

\* m flat candles at BaseClose, then one candle per close of tail.
Series(m, s, tail) ==
    FlatCandles(m, Num(10), s)
    \o [i \in 1..Len(tail) |-> Candle(FAdd(tail[i], s), FSub(tail[i], s), tail[i])]

TailCloses == {FZero, Num(9), Num(10), Num(11)}
Tails == {<<>>} \cup {<<a>> : a \in TailCloses}
                \cup {<<a, b>> : a \in TailCloses, b \in TailCloses}
Spreads == {FZero, Frac(1, 20)}

\* Lengths of the flat part, chosen so that the series lengths straddle the
\* three periods.
FlatLengths ==
    {0, ATR_PERIOD - 2, ATR_PERIOD - 1, EMA_FAST - 2, EMA_FAST - 1,
     EMA_SLOW - 2, EMA_SLOW - 1}

KlinesFamily == {Series(m, s, tail) : m \in FlatLengths, s \in Spreads, tail \in Tails}

\* Ticker bodies for the rating: percent changes on, between and beyond the
\* four thresholds, and a null body.
IndTickers ==
    {Null} \cup {Ticker(pct, Num(10)) :
                    pct \in {Num(-3), Num(-2), Frac(-3, 2), Num(-1), FZero,
                             Num(1), Frac(3, 2), Num(2), Num(3)}}

----------------------------------------------------------------------------
(* Inputs of the discovery handlers *)

Chars_sort == <<"s", "o", "r", "t">>
Chars_sort_dir == <<"s", "o", "r", "t", "_", "d", "i", "r">>
Chars_market_cap == <<"m", "a", "r", "k", "e", "t", "_", "c", "a", "p">>
Chars_desc == <<"d", "e", "s", "c">>

\* { limit: topN, convert, sort, sort_dir } with the default convert, sort, sort_dir
ListingRequest(a) ==
    Request(EP_LISTINGS,
        << Prop(Chars_limit, NumV(a.topN)), Prop(Chars_convert, StrV(Chars_USD)),
           Prop(Chars_sort, StrV(Chars_market_cap)),
           Prop(Chars_sort_dir, StrV(Chars_desc)) >>)

Args(variant, resultCount, strategy, rankMax, atrPctMax) ==
    [variant |-> variant, topN |-> 20, resultCount |-> resultCount,
     strategy |-> strategy, rankMax |-> rankMax, atrPctMax |-> atrPctMax]

\* discover-top reads no strategy, rankMax or atrPctMax: they stay at the defaults.
TopArgs(resultCount) == Args("top", resultCount, "strong_up_low_atr", 50, Num(1))

PipeArgs ==
    {TopArgs(n) : n \in {1, 5}}
    \cup {Args("pick", n, "strong_up_low_atr", 50, Num(1)) : n \in {1, 5}}

\* Listings bodies: three candidates of which one is stable; a stable, a
\* candidate without rank and two more; an item without symbol; no items; no
\* data member.
PipeListings ==
    { ListingJSON(Some(<<Item("BTC", Some(1)), Item("USDT", Some(3)), Item("ETH", Some(2))>>)),
      ListingJSON(Some(<<Item("USDC", Some(7)), Item("SOL", Null),
                         Item("XRP", Some(4)), Item("ADA", Some(60))>>)),
      ListingJSON(Some(<<Item("", Some(9)), Item("DAI", Some(20))>>)),
      ListingJSON(Some(<<>>)),
      ListingJSON(Null) }

PipeTickers == {Ticker(Num(3), Num(10)), Ticker(Num(-3), Num(20))}

\* Klines bodies: too short for any indicator; long enough for ATR only;
\* long enough for the trend.
PipeKlines ==
    { Series(1, Frac(1, 20), <<>>),
      Series(ATR_PERIOD, Frac(1, 20), <<>>),
      Series(EMA_SLOW - 1, Frac(1, 20), <<Num(11)>>) }

SnapshotOf == [k \in PipeKlines |-> Snapshot(k)]

----------------------------------------------------------------------------
(* The discovery handlers (discover-top and discover-pick share the loop) *)

\* listings?.data ?? []
DataOf(ret) ==
    IF ret = Null THEN <<>>
    ELSE IF Val(ret).data = Null THEN <<>>
    ELSE Val(Val(ret).data)

\* Skipped without the stable set: only items without symbol are skipped.
SkippedNoStables(item) == item.symbol = ""

\* if (!base || STABLES.has(base)) continue;
Skipped(item) == item.symbol = "" \/ item.symbol \in STABLES

\* The first index from i on whose item is fetched for; Len + 1 if none.
RECURSIVE NextCandidate(_, _)
NextCandidate(items, i) ==
    IF i > Len(items) THEN i
    ELSE IF Skipped(items[i]) THEN NextCandidate(items, i + 1)
    ELSE i

\* The handler runs on from the loop head at item i with the summaries sums,
\* up to its next await: the ticker fetch of the next candidate, or, the
\* loop over, filter, sort and slice, and the return.
Continue(items, i, sums, a, log) ==
    LET j == NextCandidate(items, i)
    IN  /\ idx' = j
        /\ summaries' = sums
        /\ ticker' = Null
        /\ IF j <= Len(items)
           THEN /\ pc' = "ticker"
                /\ fetchLog' = Append(log, <<"ticker", j, "pending">>)
                /\ out' = Null
           ELSE /\ pc' = "done"
                /\ fetchLog' = log
                /\ out' = Some(RankTail(a.variant, sums, a))

\* The outcome of the outstanding fetch, the last of the log, is recorded.
Settle(log, res) == [log EXCEPT ![Len(log)][3] = res]

\* The handler is invoked: parameters, then makeApiRequest up to its first await.
Start(a) ==
    /\ pc \in {"idle", "done"}
    /\ Begin(1, ListingRequest(a))
    /\ args' = a
    /\ IF call'[1].st = "hit"
       THEN /\ data' = DataOf(call'[1].ret)
            /\ Continue(data', 1, <<>>, a, <<>>)
       ELSE /\ pc' = "listing"
            /\ data' = <<>>
            /\ fetchLog' = <<<<"listing", 0, "pending">>>>
            /\ idx' = 0 /\ summaries' = <<>> /\ ticker' = Null /\ out' = Null
    /\ UNCHANGED <<calls, script, indVars>>

ListingOk(json) ==
    /\ pc = "listing"
    /\ FetchOk(1, json)
    /\ data' = DataOf(call'[1].ret)
    /\ Continue(data', 1, <<>>, args, Settle(fetchLog, "ok"))
    /\ UNCHANGED <<args, calls, script, indVars>>

ListingFail(kind) ==
    /\ pc = "listing"
    /\ FetchFail(1, kind)
    /\ data' = DataOf(call'[1].ret)
    /\ Continue(data', 1, <<>>, args, Settle(fetchLog, "fail"))
    /\ UNCHANGED <<args, calls, script, indVars>>

\* TickerOk without the await: the klines fetch is issued while the ticker
\* fetch is still outstanding.
TickerOkParallel(t) ==
    /\ pc = "ticker"
    /\ ticker' = t
    /\ pc' = "klines"
    /\ fetchLog' = Append(fetchLog, <<"klines", idx, "pending">>)
    /\ UNCHANGED <<args, data, idx, summaries, out, gwVars, indVars>>

\* tRes.ok and a parsable body: the klines fetch is issued.
TickerOk(t) ==
    /\ pc = "ticker"
    /\ ticker' = t
    /\ pc' = "klines"
    /\ fetchLog' = Append(Settle(fetchLog, "ok"), <<"klines", idx, "pending">>)
    /\ UNCHANGED <<args, data, idx, summaries, out, gwVars, indVars>>

\* TickerFail with break for continue: the loop ends at the first failure.
TickerFailBreaks(kind) ==
    /\ pc = "ticker"
    /\ kind \in FailureKinds
    /\ Continue(data, Len(data) + 1, summaries, args, Settle(fetchLog, "fail"))
    /\ UNCHANGED <<args, data, gwVars, indVars>>

\* !tRes.ok (continue), or the fetch or the body parse throws (caught).
TickerFail(kind) ==
    /\ pc = "ticker"
    /\ kind \in FailureKinds
    /\ Continue(data, idx + 1, summaries, args, Settle(fetchLog, "fail"))
    /\ UNCHANGED <<args, data, gwVars, indVars>>

\* kRes.ok and an array body: the summary is pushed.
KlinesOk(k) ==
    /\ pc = "klines"
    /\ Continue(data, idx + 1,
                Append(summaries, Summarize(data[idx], ticker, SnapshotOf[k])),
                args, Settle(fetchLog, "ok"))
    /\ UNCHANGED <<args, data, gwVars, indVars>>

\* !kRes.ok (continue), or the fetch, the body parse or klines.map throws (caught).
KlinesFail(kind) ==
    /\ pc = "klines"
    /\ kind \in FailureKinds
    /\ Continue(data, idx + 1, summaries, args, Settle(fetchLog, "fail"))
    /\ UNCHANGED <<args, data, gwVars, indVars>>

\* Time passes.
Tick == Clock /\ UNCHANGED <<apiCache, call, calls, script, pipeVars, indVars>>

PipeIdle ==
    /\ pc = "idle"
    /\ args = TopArgs(5)
    /\ data = <<>>
    /\ idx = 0
    /\ ticker = Null
    /\ summaries = <<>>
    /\ out = Null
    /\ fetchLog = <<>>

IndIdle ==
    /\ klines = <<>> /\ snap = Null
    /\ series = <<>> /\ period = 1 /\ smoothed = Null

Invoke == \E a \in PipeArgs : Start(a)
ListingResponse == \E json \in PipeListings : ListingOk(json)
ListingFailure == \E kind \in FailureKinds : ListingFail(kind)
TickerResponse == \E t \in PipeTickers : TickerOk(t)
TickerFailure == \E kind \in FailureKinds : TickerFail(kind)
KlinesResponse == \E k \in PipeKlines : KlinesOk(k)
KlinesFailure == \E kind \in FailureKinds : KlinesFail(kind)

Init == GwInit /\ script = <<>> /\ PipeIdle /\ IndIdle

Next ==
    \/ Invoke
    \/ ListingResponse
    \/ ListingFailure
    \/ TickerResponse
    \/ TickerFailure
    \/ KlinesResponse
    \/ KlinesFailure
    \/ Tick

Spec == Init /\ [][Next]_vars

----------------------------------------------------------------------------
(* The gateway alone: callers invoke makeApiRequest one after the other *)

GwCall ==
    \E r \in GwRequests :
        /\ Len(calls) < MaxCalls
        /\ NoneAwaiting
        /\ Begin(1, r)
        /\ calls' = Append(calls, Logged(call'[1], now, now))
        /\ UNCHANGED <<script, pipeVars, indVars>>

GwOk ==
    \E json \in GwPayloads :
        /\ FetchOk(1, json)
        /\ calls' = [calls EXCEPT ![Len(calls)] = Logged(call'[1], @.t0, now)]
        /\ UNCHANGED <<script, pipeVars, indVars>>

GwFail ==
    \E kind \in FailureKinds :
        /\ FetchFail(1, kind)
        /\ calls' = [calls EXCEPT ![Len(calls)] = Logged(call'[1], @.t0, now)]
        /\ UNCHANGED <<script, pipeVars, indVars>>

GwSpecInit == GwInit /\ script = <<>> /\ PipeIdle /\ IndIdle

GwNext == GwCall \/ GwOk \/ GwFail \/ Tick

SpecGateway == GwSpecInit /\ [][GwNext]_vars

----------------------------------------------------------------------------
(* The gateway under overlapping invocations: every slot may invoke           *)
(* makeApiRequest while others await their fetch.  Here calls is the order of *)
(* the lookups, stores and failures: one entry per synchronous stretch.       *)

\* An invocation runs up to its first await: the lookup, a hit or a miss.  The
\* requests: the listings request in both parameter orders, and one for the map.
\* Slots are interchangeable: an invocation takes the first that is not awaiting.
ConcCall ==
    \E c \in Callers,
       r \in {q \in GwRequests : q.endpoint = EP_LISTINGS \/ q.params[1].name = Chars_limit} :
        /\ Cardinality({n \in 1..Len(calls) : calls[n].ev \in {"hit", "miss"}}) < MaxCalls
        /\ \A d \in 1..(c - 1) : call[d].st = "await"
        /\ Begin(c, r)
        /\ calls' = Append(calls,
                [ev |-> IF call'[c].st = "hit" THEN "hit" ELSE "miss", by |-> c,
                 key |-> call'[c].key, data |-> call'[c].ret, t |-> now])
        /\ UNCHANGED <<script, pipeVars, indVars>>

\* The fetch of slot c resolves: the body is stored and returned.
ConcOk ==
    \E c \in Callers, json \in GwPayloads :
        /\ FetchOk(c, json)
        /\ calls' = Append(calls,
                [ev |-> "store", by |-> c, key |-> call[c].key,
                 data |-> Some(json), t |-> now])
        /\ UNCHANGED <<script, pipeVars, indVars>>

\* The fetch of slot c fails: the catch block.
ConcFail ==
    \E c \in Callers, kind \in FailureKinds :
        /\ FetchFail(c, kind)
        /\ calls' = Append(calls,
                [ev |-> "fail", by |-> c, key |-> call[c].key, data |-> Null, t |-> now])
        /\ UNCHANGED <<script, pipeVars, indVars>>

ConcNext == ConcCall \/ ConcOk \/ ConcFail \/ Tick

SpecConcurrent == GwSpecInit /\ [][ConcNext]_vars

----------------------------------------------------------------------------
(* Two requests, drawn from all endpoints and parameter records, made in turn *)

ScriptCall ==
    /\ Len(calls) < Len(script)
    /\ NoneAwaiting
    /\ Begin(1, script[Len(calls) + 1])
    /\ calls' = Append(calls, Logged(call'[1], now, now))
    /\ UNCHANGED <<script, pipeVars, indVars>>

KeysInit ==
    /\ GwInit /\ PipeIdle /\ IndIdle
    /\ script \in {<<r1, r2>> : r1 \in KeyRequests, r2 \in KeyRequests}

KeysNext == ScriptCall \/ GwOk \/ GwFail \/ Tick

SpecKeys == KeysInit /\ [][KeysNext]_vars

----------------------------------------------------------------------------
(* The ranking tail alone, on every list of summaries from a pool *)

\* Pool entries: trend, pct24h, atrPct, vol24h, rank.  They tie and differ on
\* each sort key in turn, sit on and beside both filter bounds, and lack each
\* optional field; the last has the rank a listing gives as null.
SummaryPool ==
    << <<Some("up"), Some(Num(3)), Some(Frac(1, 2)), Some(Num(10)), Some(1)>>,
       <<Some("up"), Some(Num(3)), Some(Frac(1, 2)), Some(Num(20)), Some(1)>>,
       <<Some("up"), Some(Num(-4)), Some(Frac(1, 2)), Some(Num(10)), Some(50)>>,
       <<Some("up"), Some(Frac(1, 2)), Some(Frac(1, 2)), Some(Num(10)), Some(50)>>,
       <<Some("up"), Some(Num(2)), Some(Frac(1, 4)), Some(Num(20)), Some(1)>>,
       <<Some("up"), Some(Num(3)), Some(Num(1)), Some(Num(20)), Some(2)>>,
       <<Some("down"), Some(Num(-3)), Some(Frac(1, 2)), Null, Null>>,
       <<Null, Null, Null, Some(Num(10)), Some(1)>>,
       <<Some("down"), Some(Num(-3)), Some(Frac(1, 2)), Some(Num(10)), JSNull>> >>

Symbols == <<"AUSDT", "BUSDT", "CUSDT", "DUSDT", "EUSDT">>

\* The summary at listing position i made of pool entry e.
PoolSummary(i, e) ==
    MakeSummary(Symbols[i], Some(Num(10)), e[2], e[4], e[3], e[1], e[5])

SummaryLists ==
    UNION {{[i \in 1..n |-> PoolSummary(i, SummaryPool[f[i]])] :
               f \in [1..n -> 1..Len(SummaryPool)]} : n \in 0..MaxSummaries}

ResultCounts == -1..(MaxSummaries + 1)

\* rankMax and atrPctMax: the defaults, a tighter rank, a tighter ATR%.
RankLimits == {<<50, Num(1)>>, <<1, Num(1)>>, <<50, Frac(1, 2)>>}

RankArgs ==
    {TopArgs(n) : n \in ResultCounts}
    \cup {Args("run-discover-top", n, "strong_up_low_atr", lim[1], lim[2]) :
            n \in ResultCounts, lim \in RankLimits}
    \cup {Args("pick", n, st, lim[1], lim[2]) :
            n \in ResultCounts,
            st \in {"strong_up_low_atr", "strong_up_high_vol"},
            lim \in RankLimits}
    \cup {Args("pick", n, "other", 50, Num(1)) : n \in ResultCounts}

RankInit ==
    /\ GwInit /\ script = <<>> /\ IndIdle
    /\ pc = "rank"
    /\ args \in RankArgs
    /\ summaries \in SummaryLists
    /\ data = <<>> /\ idx = 0 /\ ticker = Null /\ out = Null /\ fetchLog = <<>>

\* The loop over: filter, sort, slice and return.
RunTail ==
    /\ pc = "rank"
    /\ out' = Some(RankTail(args.variant, summaries, args))
    /\ pc' = "done"
    /\ UNCHANGED <<args, data, idx, ticker, summaries, fetchLog, gwVars, indVars>>

RankNext == RunTail

SpecRanker == RankInit /\ [][RankNext]_vars

----------------------------------------------------------------------------
(* The indicator engine alone, on every klines payload of the family *)

IndInit ==
    /\ GwInit /\ script = <<>>
    /\ pc = "idle" /\ args = TopArgs(5) /\ data = <<>> /\ idx = 0
    /\ summaries = <<>> /\ out = Null /\ fetchLog = <<>>
    /\ ticker \in IndTickers
    /\ klines \in KlinesFamily
    /\ snap = Null
    /\ series = <<>> /\ period = 1 /\ smoothed = Null

\* Lines 562 to 592 of the handler on one ticker and one klines payload: the
\* derived values and the summary pushed.
Derive ==
    /\ snap = Null
    /\ snap' = Some(Snapshot(klines))
    /\ summaries' = <<Summarize(Item("BTC", Some(1)), ticker, Val(snap'))>>
    /\ UNCHANGED <<klines, series, period, smoothed, gwVars, pc, args, data, idx,
                   ticker, out, fetchLog>>

IndNext == Derive

SpecIndicators == IndInit /\ [][IndNext]_vars

----------------------------------------------------------------------------
(* The smoothing functions alone, on short series and small periods *)

\* Every series of up to MaxSeriesLen values out of 1, 3 and 1.75, with
\* every period up to MaxPeriod.
SmoothInit ==
    /\ GwInit /\ script = <<>> /\ PipeIdle
    /\ klines = <<>> /\ snap = Null
    /\ series \in UNION {[1..n -> {Num(1), Num(3), Frac(7, 4)}] : n \in 0..MaxSeriesLen}
    /\ period \in 1..MaxPeriod
    /\ smoothed = Null

\* calcEMA, sma and rma are called on the series; of rma the values on the
\* way are kept, in exact arithmetic and in the rounded one.
Smooth ==
    /\ smoothed = Null
    /\ smoothed' = Some([ema |-> calcEMA(series, period),
                         sma |-> sma(series, period),
                         rma |-> rma(series, period),
                         trace |-> RmaTrace(series, period, 0),
                         rounded |-> RmaTrace(series, period, MantissaBits)])
    /\ UNCHANGED <<series, period, klines, snap, gwVars, pipeVars>>

SpecSmoothing == SmoothInit /\ [][Smooth]_vars

\* ---------------------------------------------------------------------------
\* Properties of the gateway (SpecGateway, SpecKeys)
\* ---------------------------------------------------------------------------

\* The stored responses that precede call j under the same key, as the history
\* of calls records them.
StoredBefore(j) ==
    {i \in 1..(j - 1) : calls[i].key = calls[j].key /\ calls[i].st = "ok"}

LatestStored(j) == CHOOSE i \in StoredBefore(j) : \A k \in StoredBefore(j) : k <= i

\* C1: a call whose key has a stored entry younger than the time-to-live
\* (now - entry.ts < CACHE_TTL_MS) issues no upstream fetch and returns the
\* stored payload unchanged; a call whose key has no entry, or an entry of age
\* at least the time-to-live, goes upstream.  With the default of 15000 ms, a
\* repeat inside the window is served from the cache and a repeat at or after
\* 15000 ms is fetched again.
C1_CacheHitWithinTtl ==
    \A j \in 1..Len(calls) :
        IF StoredBefore(j) # {}
           /\ calls[j].t0 - calls[LatestStored(j)].t1 < 15000
        THEN /\ calls[j].st = "hit"
             /\ calls[j].ret = calls[LatestStored(j)].ret
             /\ calls[j].t1 = calls[j].t0
        ELSE calls[j].st \in {"await", "ok", "fail"}

\* One history holds a response stored at time 0, a repeat served from the
\* cache inside the window and a repeat at the window's end fetched again.
C1_Witness ==
    /\ Len(calls) = 3
    /\ calls[1].st = "ok" /\ calls[1].t1 = 0
    /\ calls[2].key = calls[1].key /\ calls[2].st = "hit"
    /\ calls[2].t0 = 7500 /\ calls[2].ret = calls[1].ret
    /\ calls[3].key = calls[1].key /\ calls[3].st = "ok"
    /\ calls[3].t0 = 15000

\* The name/value bindings of a request, order forgotten.
Bindings(r) == {<<r.params[i].name, r.params[i].val>> : i \in DOMAIN r.params}

SameRequest(r1, r2) == r1.endpoint = r2.endpoint /\ Bindings(r1) = Bindings(r2)

\* C2: two requests with the same endpoint and the same parameter bindings
\* have the same cache key whatever the order of the parameters, and two
\* requests that differ in the endpoint, in a parameter name or in a value
\* have different keys; so a call repeated with reordered parameters inside
\* the window is served from the first call's entry.
C2_KeyOrderIndependent ==
    Len(calls) = 2 =>
        /\ SameRequest(calls[1].req, calls[2].req) <=> calls[1].key = calls[2].key
        /\ ( /\ SameRequest(calls[1].req, calls[2].req)
             /\ calls[1].st = "ok"
             /\ calls[2].t0 - calls[1].t1 < CACHE_TTL_MS )
           => (calls[2].st = "hit" /\ calls[2].ret = calls[1].ret)

\* The second call lists the parameters of the first in another order and is
\* served from the cache.
C2_Witness ==
    /\ Len(calls) = 2
    /\ calls[1].req.endpoint = calls[2].req.endpoint
    /\ Len(calls[1].req.params) = 2
    /\ calls[2].req.params = <<calls[1].req.params[2], calls[1].req.params[1]>>
    /\ calls[1].req.params[1].name # calls[1].req.params[2].name
    /\ calls[1].st = "ok"
    /\ calls[2].st = "hit"

\* The successful responses recorded for key k.
StoredFor(k) == {i \in 1..Len(calls) : calls[i].key = k /\ calls[i].st = "ok"}

\* C3: a call whose upstream fetch fails returns null and leaves the cache as
\* it was: no entry is added and an expired entry of the key is not refreshed
\* (the cache holds, per key, exactly the latest successful response with the
\* time it was stored), and every payload served from the cache is the payload
\* of an earlier successful response.
C3_FailureNotCached ==
    /\ \A j \in 1..Len(calls) : calls[j].st = "fail" => calls[j].ret = Null
    /\ DOMAIN apiCache = {calls[i].key : i \in {j \in 1..Len(calls) : calls[j].st = "ok"}}
    /\ \A k \in DOMAIN apiCache :
          \E i \in StoredFor(k) :
              /\ \A m \in StoredFor(k) : m <= i
              /\ apiCache[k] = [ts |-> calls[i].t1, data |-> Val(calls[i].ret)]
    /\ \A j \in 1..Len(calls) :
          calls[j].st = "hit" =>
              \E i \in 1..(j - 1) :
                  /\ calls[i].st = "ok"
                  /\ calls[i].key = calls[j].key
                  /\ calls[i].ret = calls[j].ret

\* A fetch fails for a key whose entry has expired, and also for a key that
\* has no entry; the expired entry keeps its time and no entry appears.
C3_Witness ==
    /\ Len(calls) = 3
    /\ calls[1].st = "ok" /\ calls[1].t1 = 0
    /\ calls[2].key = calls[1].key /\ calls[2].st = "fail" /\ calls[2].t0 = 15000
    /\ calls[3].key # calls[1].key /\ calls[3].st = "fail"
    /\ DOMAIN apiCache = {calls[1].key}
    /\ apiCache[calls[1].key].ts = 0

\* ---------------------------------------------------------------------------
\* Properties of the discovery pipeline (Spec)
\* ---------------------------------------------------------------------------

StableSet == {"USDT", "USDC", "BUSD", "TUSD", "DAI", "FDUSD"}

\* The fetches of one kind this run issued for candidate i.
LogOf(kind, i) ==
    {n \in 1..Len(fetchLog) : fetchLog[n][1] = kind /\ fetchLog[n][2] = i}

InLog(kind, i, res) == \E n \in 1..Len(fetchLog) : fetchLog[n] = <<kind, i, res>>

NoFailure == \A n \in 1..Len(fetchLog) : fetchLog[n][3] # "fail"

\* The summaries candidate i contributed.
SummariesOf(i) ==
    {n \in 1..Len(summaries) : summaries[n].symbol = data[i].symbol \o "USDT"}

IsCandidate(item) == item.symbol # "" /\ item.symbol \notin StableSet

\* C4: in every run of discover-top and discover-pick a candidate whose base
\* symbol is in the stable set triggers no ticker and no klines fetch and
\* contributes no summary, and every non-stable candidate whose two fetches
\* succeed contributes exactly one summary, with symbol base + "USDT"; with no
\* fetch failure the summaries are those of the non-stable candidates (of
\* three candidates with one stable, the other two).
C4_StablesSkipped ==
    /\ \A i \in 1..Len(data) :
          /\ data[i].symbol \in StableSet =>
                /\ LogOf("ticker", i) = {}
                /\ LogOf("klines", i) = {}
                /\ SummariesOf(i) = {}
          /\ ( /\ data[i].symbol \notin StableSet
               /\ InLog("ticker", i, "ok")
               /\ InLog("klines", i, "ok") )
             => Cardinality(SummariesOf(i)) = 1
    /\ (pc = "done" /\ NoFailure) =>
          /\ Len(summaries) = Len(SelectSeq(data, IsCandidate))
          /\ \A n \in 1..Len(summaries) :
                summaries[n].symbol = SelectSeq(data, IsCandidate)[n].symbol \o "USDT"

\* Three candidates of which the second is stable, no failure: two summaries.
C4_Witness ==
    /\ pc = "done"
    /\ Len(data) = 3
    /\ data[2].symbol = "USDT"
    /\ NoFailure
    /\ fetchLog = << <<"listing", 0, "ok">>, <<"ticker", 1, "ok">>, <<"klines", 1, "ok">>,
                     <<"ticker", 3, "ok">>, <<"klines", 3, "ok">> >>
    /\ Len(summaries) = 2
    /\ summaries[1].symbol = "BTCUSDT"
    /\ summaries[2].symbol = "ETHUSDT"

\* C5: a candidate whose ticker fetch or klines fetch fails contributes no
\* summary, the failure surfaces no error (the run returns a result), no
\* further fetch is made for that candidate (a failed ticker is not followed
\* by its klines fetch, nothing is retried), and the loop goes on with the
\* next candidate, so that every other candidate is still processed.
C5_FailureSkipsCandidate ==
    /\ \A i \in 1..Len(data) :
          /\ Cardinality(LogOf("ticker", i)) <= 1
          /\ Cardinality(LogOf("klines", i)) <= 1
          /\ InLog("ticker", i, "fail") =>
                (LogOf("klines", i) = {} /\ SummariesOf(i) = {})
          /\ InLog("klines", i, "fail") => SummariesOf(i) = {}
    /\ \A n \in 1..(Len(fetchLog) - 1) :
          (fetchLog[n][1] # "listing" /\ fetchLog[n][3] = "fail") =>
              /\ fetchLog[n + 1][1] = "ticker"
              /\ fetchLog[n + 1][2] > fetchLog[n][2]
    /\ pc = "done" =>
          /\ out # Null
          /\ \A i \in 1..Len(data) :
                IsCandidate(data[i]) =>
                    (InLog("ticker", i, "ok") \/ InLog("ticker", i, "fail"))

\* Of three candidates behind a stable one the first fails at the ticker,
\* the second at the klines, and the third is summarized.
C5_Witness ==
    /\ pc = "done"
    /\ Len(data) = 4
    /\ Len(fetchLog) >= 5
    /\ fetchLog[Len(fetchLog) - 4] = <<"ticker", 2, "fail">>
    /\ fetchLog[Len(fetchLog) - 3] = <<"ticker", 3, "ok">>
    /\ fetchLog[Len(fetchLog) - 2] = <<"klines", 3, "fail">>
    /\ fetchLog[Len(fetchLog) - 1] = <<"ticker", 4, "ok">>
    /\ fetchLog[Len(fetchLog)] = <<"klines", 4, "ok">>
    /\ Len(summaries) = 1
    /\ summaries[1].symbol = "ADAUSDT"
    /\ out # Null

\* C6: when the ranked-listing fetch fails the run goes on with an empty
\* candidate set: no ticker or klines fetch is made, no error surfaces, and
\* the run returns an empty result.
C6_ListingFailureEmpty ==
    (fetchLog # <<>> /\ fetchLog[1] = <<"listing", 0, "fail">>) =>
        /\ pc = "done"
        /\ data = <<>>
        /\ Len(fetchLog) = 1
        /\ summaries = <<>>
        /\ out = Some(<<>>)

\* The listing fetch fails while the cache still holds an expired listing
\* with candidates.
C6_Witness ==
    /\ pc = "done"
    /\ fetchLog = << <<"listing", 0, "fail">> >>
    /\ out = Some(<<>>)
    /\ \E k \in DOMAIN apiCache :
          /\ apiCache[k].data.data # Null
          /\ Len(Val(apiCache[k].data.data)) = 3

\* ---------------------------------------------------------------------------
\* Properties of the ranking tail (SpecRanker)
\* ---------------------------------------------------------------------------

Returned == Val(out)

\* A rank that is a number: neither missing nor null.
RankPresent(s) == s.cmc.rank # Null /\ s.cmc.rank # JSNull

Passes(s) ==
    /\ RankPresent(s)
    /\ Val(s.cmc.rank) <= args.rankMax
    /\ s.atrPct # Null
    /\ FLe(Val(s.atrPct), args.atrPctMax)

InReturned(s) == \E n \in 1..Len(Returned) : Returned[n] = s

\* C7: in discover-pick a summary passes the filter if and only if its rank
\* is present and <= rankMax and its atrPercent is present and <= atrPctMax
\* (seen on the output where resultCount does not truncate); a summary with
\* absent rank or absent atrPercent is never in the output.
C7_FilterIff ==
    (pc = "done" /\ args.variant = "pick") =>
        /\ \A n \in 1..Len(Returned) : Passes(Returned[n])
        /\ args.resultCount >= Len(summaries) =>
              \A i \in 1..Len(summaries) : Passes(summaries[i]) => InReturned(summaries[i])

\* What holds of the filter as it is written: a null rank counts as rank 0.
PassesCoerced(s) ==
    /\ s.cmc.rank # Null
    /\ (IF s.cmc.rank = JSNull THEN 0 ELSE Val(s.cmc.rank)) <= args.rankMax
    /\ s.atrPct # Null
    /\ FLe(Val(s.atrPct), args.atrPctMax)

\* The filter as it is written: membership in the untruncated output is
\* exactly PassesCoerced.
FilterAsWritten ==
    (pc = "done" /\ args.variant = "pick") =>
        /\ \A n \in 1..Len(Returned) : PassesCoerced(Returned[n])
        /\ args.resultCount >= Len(summaries) =>
              \A i \in 1..Len(summaries) :
                  PassesCoerced(summaries[i]) => InReturned(summaries[i])

\* discover-pick returned a summary whose rank is null.
C7_NullRankReturned ==
    /\ pc = "done"
    /\ args.variant = "pick"
    /\ \E n \in 1..Len(Returned) : Returned[n].cmc.rank = JSNull

Score(r) ==
    CASE r = "strong_up" -> 4
      [] r = "up" -> 3
      [] r = "neutral" -> 2
      [] r = "down" -> 1
      [] r = "strong_down" -> 0

AtrKey(s) == IF s.atrPct = Null THEN PosInf ELSE Val(s.atrPct)
VolKey(s) == IF s.vol24h = Null THEN FZero ELSE Val(s.vol24h)
MoveKey(s) == IF s.pct24h = Null THEN FZero ELSE FAbs(Val(s.pct24h))

\* The sort keys of a summary in the order the strategy reads them, each
\* turned so that smaller sorts first.
KeysOf(s, strategy) ==
    IF strategy = "strong_up_high_vol"
    THEN <<Num(0 - Score(s.rating)), FSub(FZero, VolKey(s)), AtrKey(s),
           FSub(FZero, MoveKey(s))>>
    ELSE <<Num(0 - Score(s.rating)), AtrKey(s), FSub(FZero, VolKey(s)),
           FSub(FZero, MoveKey(s))>>

\* Lexicographic order on key tuples.
LexLess(k1, k2) ==
    \E n \in 1..4 :
        /\ \A m \in 1..(n - 1) : k1[m] = k2[m]
        /\ FLt(k1[n], k2[n])

\* The listing position of a summary.
PositionOf(s) == CHOOSE i \in 1..Len(summaries) : summaries[i] = s

\* C8: the output of discover-pick is ordered by the lexicographic comparison
\* the strategy selects: rating score descending, then (strong_up_low_atr, the
\* default) atrPercent ascending, volume descending, or (strong_up_high_vol)
\* volume descending, atrPercent ascending, then absolute 24h change
\* descending; rating dominates every later key, and summaries equal on all
\* keys keep their listing order.
C8_OrderedByStrategy ==
    (pc = "done" /\ args.variant = "pick") =>
        \A i \in 1..Len(Returned) : \A j \in (i + 1)..Len(Returned) :
            LET ki == KeysOf(Returned[i], args.strategy)
                kj == KeysOf(Returned[j], args.strategy)
            IN  /\ ~LexLess(kj, ki)
                /\ ki = kj => PositionOf(Returned[i]) < PositionOf(Returned[j])

\* Under strong_up_high_vol three summaries of one rating come out with the
\* higher volume first although its atrPercent is higher, and two summaries
\* equal on all keys in their listing order, the listing having them
\* the other way round in volume.
C8_Witness ==
    /\ pc = "done"
    /\ args.variant = "pick"
    /\ args.strategy = "strong_up_high_vol"
    /\ Len(Returned) = 3
    /\ Returned[1].rating = Returned[3].rating
    /\ FLt(VolKey(Returned[2]), VolKey(Returned[1]))
    /\ FLt(AtrKey(Returned[2]), AtrKey(Returned[1]))
    /\ KeysOf(Returned[2], args.strategy) = KeysOf(Returned[3], args.strategy)
    /\ PositionOf(Returned[1]) = 3
    /\ PositionOf(Returned[2]) = 1
    /\ PositionOf(Returned[3]) = 2

\* The sequence the slice is taken of.
Ranked ==
    IF args.variant = "pick"
    THEN Sort(PickFilter(summaries, args.rankMax, args.atrPctMax), args.strategy)
    ELSE IF args.variant = "run-discover-top"
    THEN Sort(PickFilter(summaries, args.rankMax, args.atrPctMax), "discover-top")
    ELSE Sort(summaries, "discover-top")

\* C9: for every non-negative resultCount the output is exactly the first
\* min(resultCount, n) entries of the sorted (for discover-pick, filtered)
\* sequence of n summaries, in the same order; a resultCount above n returns
\* the whole sequence.
C9_SliceToResultCount ==
    (pc = "done" /\ args.resultCount >= 0) =>
        /\ out # Null
        /\ Len(Returned) = (IF args.resultCount < Len(Ranked)
                            THEN args.resultCount ELSE Len(Ranked))
        /\ \A n \in 1..Len(Returned) : Returned[n] = Ranked[n]

\* A resultCount above the two summaries that pass the filter returns both.
C9_Witness ==
    /\ pc = "done"
    /\ args.variant = "pick"
    /\ Len(summaries) = 3
    /\ Len(Ranked) = 2
    /\ args.resultCount = 4
    /\ Len(Returned) = 2

\* ---------------------------------------------------------------------------
\* Properties of the indicators (SpecIndicators)
\* ---------------------------------------------------------------------------

Derived == Val(snap)

\* C10: the trend follows a priority order: if EMA(50) and EMA(200) are both
\* defined it is up exactly when EMA50 > EMA200 and down otherwise, equality
\* included; else if SMA(200) and the last close are defined it is up exactly
\* when lastClose > SMA200 and down otherwise; else it is undefined.
C10_TrendPriority ==
    snap # Null =>
        IF Derived.ema50 # Null /\ Derived.ema200 # Null
        THEN /\ Derived.trend # Null
             /\ Val(Derived.trend) = "up" <=> FLt(Val(Derived.ema200), Val(Derived.ema50))
             /\ Val(Derived.trend) = "down" <=> FLe(Val(Derived.ema50), Val(Derived.ema200))
        ELSE IF Derived.sma200 # Null /\ Derived.lastClose # Null
        THEN /\ Derived.trend # Null
             /\ Val(Derived.trend) = "up" <=> FLt(Val(Derived.sma200), Val(Derived.lastClose))
             /\ Val(Derived.trend) = "down" <=> FLe(Val(Derived.lastClose), Val(Derived.sma200))
        ELSE Derived.trend = Null

\* A flat series of 200 closes: both averages are defined and equal, and the
\* trend is down.
C10_Witness ==
    /\ snap # Null
    /\ Derived.n = 200
    /\ Derived.ema50 # Null
    /\ Derived.ema200 # Null
    /\ Derived.ema50 = Derived.ema200
    /\ Derived.trend = Some("down")

Pushed == summaries[1]

\* C11: the rating is a function of trend and pct24h: with trend up it is
\* strong_up if pct24h > 2, else up if pct24h > 1, else neutral; with trend
\* down it is strong_down if pct24h < -2, else down if pct24h < -1, else
\* neutral; with no trend it is neutral; an undefined pct24h meets no
\* threshold.  The thresholds are strict, a positive rating needs trend up and
\* a negative rating trend down.
C11_RatingTable ==
    snap # Null =>
        LET t == Pushed.trend
            p == Pushed.pct24h
            above(x) == p # Null /\ FLt(Num(x), Val(p))
            below(x) == p # Null /\ FLt(Val(p), Num(x))
        IN  /\ Pushed.rating = "strong_up" <=> (t = Some("up") /\ above(2))
            /\ Pushed.rating = "up" <=> (t = Some("up") /\ above(1) /\ ~above(2))
            /\ Pushed.rating = "strong_down" <=> (t = Some("down") /\ below(-2))
            /\ Pushed.rating = "down" <=> (t = Some("down") /\ below(-1) /\ ~below(-2))
            /\ Pushed.rating = "neutral" <=>
                  \/ t = Null
                  \/ p = Null
                  \/ (t = Some("up") /\ ~above(1))
                  \/ (t = Some("down") /\ ~below(-1))
            /\ Pushed.rating \in {"strong_up", "up", "neutral", "down", "strong_down"}

\* Trend up with pct24h exactly 2: the rating is up, not strong_up.
C11_Witness ==
    /\ snap # Null
    /\ Pushed.trend = Some("up")
    /\ Pushed.pct24h = Some(Num(2))
    /\ Pushed.rating = "up"

\* ---------------------------------------------------------------------------
\* Properties of the smoothing functions (SpecSmoothing)
\* ---------------------------------------------------------------------------

Got == Val(smoothed)

\* The exponential average of s[1..i] with factor 2 / (p + 1), seeded with s[1].
RECURSIVE EmaOf(_, _, _)
EmaOf(s, p, i) ==
    IF i = 1 THEN s[1]
    ELSE FAdd(FMul(s[i], Frac(2, p + 1)),
              FMul(EmaOf(s, p, i - 1), FSub(Num(1), Frac(2, p + 1))))

\* s[i] + ... + s[j]
RECURSIVE SumOf(_, _, _)
SumOf(s, i, j) == IF i > j THEN FZero ELSE FAdd(s[i], SumOf(s, i + 1, j))

\* The mean of s[1..p] smoothed with alpha = 1 / p over s[p+1..i].
RECURSIVE RmaOf(_, _, _)
RmaOf(s, p, i) ==
    IF i = p THEN FDiv(SumOf(s, 1, p), Num(p))
    ELSE FAdd(FMul(Frac(1, p), s[i]),
              FMul(FSub(Num(1), Frac(1, p)), RmaOf(s, p, i - 1)))

\* C12: for a series shorter than the period calcEMA, sma and rma all return
\* null; otherwise each returns a value: calcEMA the recursion seeded with
\* s[0] over the whole series, sma the mean of the last p elements, rma the
\* mean of the first p elements smoothed with alpha = 1/p over the rest.
C12_DefinedFromPeriod ==
    smoothed # Null =>
        IF Len(series) < period
        THEN Got.ema = Null /\ Got.sma = Null /\ Got.rma = Null
        ELSE /\ Got.ema = Some(EmaOf(series, period, Len(series)))
             /\ Got.sma = Some(FDiv(SumOf(series, Len(series) - period + 1, Len(series)),
                                    Num(period)))
             /\ Got.rma = Some(RmaOf(series, period, Len(series)))

\* A series of four with period 3 on which the three averages differ, and the
\* mean of the last three from the mean of the first three.
C12_Witness ==
    /\ smoothed # Null
    /\ Len(series) = 4
    /\ period = 3
    /\ Got.ema # Null /\ Got.sma # Null /\ Got.rma # Null
    /\ Got.ema # Got.sma /\ Got.sma # Got.rma /\ Got.ema # Got.rma
    /\ Got.sma # Some(FDiv(SumOf(series, 1, 3), Num(3)))

\* The least and the greatest of s[1..i].
RECURSIVE MinOf(_, _)
MinOf(s, i) == IF i = 1 THEN s[1] ELSE IF FLt(s[i], MinOf(s, i - 1)) THEN s[i] ELSE MinOf(s, i - 1)

RECURSIVE MaxOf(_, _)
MaxOf(s, i) == IF i = 1 THEN s[1] ELSE FMax(MaxOf(s, i - 1), s[i])

\* Every value of the trace lies between the least and the greatest of the
\* elements consumed when it was computed.
Bounded(trace) ==
    \A k \in 1..Len(trace) :
        /\ FLe(MinOf(series, period + k - 1), trace[k])
        /\ FLe(trace[k], MaxOf(series, period + k - 1))

\* C13: for every period p >= 1 and every series at least that long, the seed
\* and every intermediate value of rma, and so the value returned, lie between
\* the minimum and the maximum of the elements consumed up to that step.
C13_RmaBounded ==
    (smoothed # Null /\ Got.rounded # Null) => Bounded(Val(Got.rounded))

\* The same in exact arithmetic, where the returned value is the last of the trace.
RmaBoundedExactly ==
    (smoothed # Null /\ Got.trace # Null) =>
        /\ Bounded(Val(Got.trace))
        /\ Got.rma = Some(Val(Got.trace)[Len(Val(Got.trace))])

\* On a constant series the rounded value of rma leaves the series' only value.
C13_ConstantSeriesLeft ==
    /\ smoothed # Null
    /\ Got.rounded # Null
    /\ \A i \in 1..Len(series) : series[i] = series[1]
    /\ \E k \in 1..Len(Val(Got.rounded)) : Val(Got.rounded)[k] # series[1]

\* ---------------------------------------------------------------------------
\* Properties of the derived values (SpecIndicators)
\* ---------------------------------------------------------------------------

\* The greatest of three numbers.
Max3(x, y, z) ==
    IF FLe(y, x) /\ FLe(z, x) THEN x ELSE IF FLe(z, y) THEN y ELSE z

\* C14: the true-range series has one value per candle; the value at index 0
\* is high[0] - low[0], with no previous-close term; the value at every later
\* index i is max(high[i] - low[i], |high[i] - close[i-1]|, |low[i] - close[i-1]|).
C14_TrueRange ==
    snap # Null =>
        /\ Len(Derived.tr) = Len(klines)
        /\ klines # <<>> => Derived.tr[1] = FSub(klines[1].high, klines[1].low)
        /\ \A i \in 2..Len(klines) :
              Derived.tr[i] =
                  Max3(FSub(klines[i].high, klines[i].low),
                       FAbs(FSub(klines[i].high, klines[i - 1].close)),
                       FAbs(FSub(klines[i].low, klines[i - 1].close)))

\* Two candles: the first gives high - low; the second, after a fall, the
\* distance from its low to the previous close, which exceeds its high - low.
C14_Witness ==
    /\ snap # Null
    /\ Len(klines) = 2
    /\ Derived.tr[1] = FSub(klines[1].high, klines[1].low)
    /\ FLt(klines[2].close, klines[1].close)
    /\ Derived.tr[2] = FAbs(FSub(klines[2].low, klines[1].close))
    /\ FLt(FSub(klines[2].high, klines[2].low), Derived.tr[2])

\* C15: atrPercent is ATR / lastClose * 100, with ATR = rma(trueRange, 14),
\* whenever ATR is defined and lastClose is defined and not zero; it is absent
\* when ATR is undefined (fewer than 14 candles), when lastClose is undefined
\* (no candle) or when lastClose is zero.
C15_AtrPercent ==
    snap # Null =>
        /\ Derived.atr = Null <=> Len(klines) < 14
        /\ Derived.lastClose = Null <=> klines = <<>>
        /\ IF Derived.atr # Null /\ Derived.lastClose # Null
              /\ Val(Derived.lastClose) # FZero
           THEN Derived.atrPct =
                    Some(FMul(FDiv(Val(Derived.atr), Val(Derived.lastClose)), Num(100)))
           ELSE Derived.atrPct = Null

\* atrPercent as the handler computes it: absent also when ATR is zero.
AtrPercentAsWritten ==
    snap # Null =>
        IF Derived.atr # Null /\ Val(Derived.atr) # FZero
           /\ Derived.lastClose # Null /\ Val(Derived.lastClose) # FZero
        THEN Derived.atrPct =
                 Some(FMul(FDiv(Val(Derived.atr), Val(Derived.lastClose)), Num(100)))
        ELSE Derived.atrPct = Null

\* Fourteen candles without any range: ATR is 0, the last close is not, and
\* atrPercent is absent.
C15_ZeroAtrAbsent ==
    /\ snap # Null
    /\ Len(klines) >= 14
    /\ Derived.atr = Some(FZero)
    /\ Derived.lastClose # Null
    /\ Val(Derived.lastClose) # FZero
    /\ Derived.atrPct = Null

\* ---------------------------------------------------------------------------
\* The filter across the variants (SpecRanker)
\* ---------------------------------------------------------------------------

\* A run of discover-top: the tool of the server or the example runner.
TopRun == args.variant \in {"top", "run-discover-top"}

\* Every assembled summary is in the output where resultCount does not truncate.
NothingRemoved ==
    args.resultCount >= Len(summaries) =>
        /\ Len(Returned) = Len(summaries)
        /\ \A i \in 1..Len(summaries) : InReturned(summaries[i])

\* C16: discover-top applies no inclusion filter: every summary assembled in a
\* discover-top run, whatever its rank or atrPercent (absent ones included), is
\* in the sorted sequence that is truncated to resultCount; only discover-pick
\* removes summaries by rankMax and atrPctMax.
C16_TopNoFilter ==
    (pc = "done" /\ TopRun) => NothingRemoved

\* The discover-top tool of the server removes nothing.
ServerTopNoFilter ==
    (pc = "done" /\ args.variant = "top") => NothingRemoved

\* The example runner of discover-top drops a summary whose atrPercent is
\* absent, although resultCount does not truncate.
C16_ExampleRunnerFilters ==
    /\ pc = "done"
    /\ args.variant = "run-discover-top"
    /\ args.resultCount >= Len(summaries)
    /\ \E i \in 1..Len(summaries) :
          /\ summaries[i].atrPct = Null
          /\ ~InReturned(summaries[i])

\* ---------------------------------------------------------------------------
\* The order of the fetches of one run (Spec)
\* ---------------------------------------------------------------------------

\* The listing positions of the summaries assembled so far, in their order.
Positions ==
    [n \in 1..Len(summaries) |->
        CHOOSE i \in 1..Len(data) : summaries[n].symbol = data[i].symbol \o "USDT"]

\* C17: within one run the fetches are strictly sequential and in listing
\* order: at most one fetch is outstanding at any moment; the listing fetch
\* completes before any per-asset fetch starts; the ticker fetch of a candidate
\* completes before its klines fetch starts; all fetches of candidate i
\* complete before any fetch of candidate i+1 starts; no fetch is outstanding
\* or issued once filtering and sorting have begun; and the summaries before
\* the sort are in listing order.
C17_SequentialFetches ==
    /\ \A n \in 1..(Len(fetchLog) - 1) : fetchLog[n][3] # "pending"
    /\ \A n \in 1..Len(fetchLog) :
          /\ fetchLog[n][1] = "listing" <=> fetchLog[n][2] = 0
          /\ fetchLog[n][1] = "listing" => n = 1
          /\ fetchLog[n][1] = "klines" =>
                n > 1 /\ fetchLog[n - 1] = <<"ticker", fetchLog[n][2], "ok">>
          /\ \A m \in (n + 1)..Len(fetchLog) :
                /\ fetchLog[n][2] <= fetchLog[m][2]
                /\ fetchLog[n][1] = fetchLog[m][1] => fetchLog[n][2] < fetchLog[m][2]
    /\ (pc = "done" \/ out # Null) =>
          \A n \in 1..Len(fetchLog) : fetchLog[n][3] # "pending"
    /\ \A n \in 1..Len(summaries) :
          /\ \E i \in 1..Len(data) : summaries[n].symbol = data[i].symbol \o "USDT"
          /\ \A m \in (n + 1)..Len(summaries) : Positions[n] < Positions[m]

\* Once the run has returned, a step that is not a new invocation issues no fetch.
NoFetchAfterReturn ==
    [][(pc = "done" /\ pc' = "done" /\ call' = call) => fetchLog' = fetchLog]_vars

\* A run over a listing of one stable asset and three candidates, the listing
\* fetched: seven fetches, one after the other, and three summaries in listing
\* order.
C17_Witness ==
    /\ pc = "done"
    /\ Len(data) = 4
    /\ Len(fetchLog) = 7
    /\ fetchLog[1] = <<"listing", 0, "ok">>
    /\ fetchLog[2] = <<"ticker", 2, "ok">>
    /\ fetchLog[5] = <<"klines", 3, "ok">>
    /\ fetchLog[7] = <<"klines", 4, "ok">>
    /\ Len(summaries) = 3
    /\ Positions = <<2, 3, 4>>

\* ---------------------------------------------------------------------------
\* Overlapping invocations of makeApiRequest (SpecConcurrent)
\* ---------------------------------------------------------------------------

\* The stores for key k among the first n entries of the history.
StoresOf(k, n) == {i \in 1..n : calls[i].ev = "store" /\ calls[i].key = k}

LastStore(k, n) == CHOOSE i \in StoresOf(k, n) : \A j \in StoresOf(k, n) : j <= i

\* The entries of slot c before entry n.
EarlierBy(c, n) == {i \in 1..(n - 1) : calls[i].by = c}

\* C18: makeApiRequest does not serialize lookup, fetch and store per key.  A
\* lookup is decided by the cache as it is at that instant alone: it is a hit
\* exactly when the latest store for the key is younger than the time-to-live,
\* whoever else awaits a fetch for that key, so overlapping invocations that
\* all look up before any store all fetch, and each of them that succeeds
\* stores.  Lookups and stores are atomic: the cache holds, for exactly the
\* keys ever stored, one entry, that of the latest store; none is removed.
C18_NoPerKeySerialization ==
    /\ \A n \in 1..Len(calls) :
          /\ calls[n].ev \in {"hit", "miss"} =>
                IF StoresOf(calls[n].key, n) # {}
                   /\ calls[n].t - calls[LastStore(calls[n].key, n)].t < 15000
                THEN /\ calls[n].ev = "hit"
                     /\ calls[n].data = calls[LastStore(calls[n].key, n)].data
                ELSE calls[n].ev = "miss"
          /\ calls[n].ev \in {"store", "fail"} =>
                /\ EarlierBy(calls[n].by, n) # {}
                /\ LET m == CHOOSE i \in EarlierBy(calls[n].by, n) :
                                \A j \in EarlierBy(calls[n].by, n) : j <= i
                   IN  calls[m].ev = "miss" /\ calls[m].key = calls[n].key
    /\ \A c \in Callers :
          call[c].st = "await" <=>
              /\ EarlierBy(c, Len(calls) + 1) # {}
              /\ LET m == CHOOSE i \in EarlierBy(c, Len(calls) + 1) :
                              \A j \in EarlierBy(c, Len(calls) + 1) : j <= i
                 IN  calls[m].ev = "miss"
    /\ DOMAIN apiCache = {calls[n].key : n \in {i \in 1..Len(calls) : calls[i].ev = "store"}}
    /\ \A k \in DOMAIN apiCache :
          /\ Some(apiCache[k].data) = calls[LastStore(k, Len(calls))].data
          /\ apiCache[k].ts = calls[LastStore(k, Len(calls))].t

\* No step removes an entry of the cache.
NoEntryRemoved ==
    [][DOMAIN apiCache \subseteq DOMAIN apiCache']_vars

\* Two invocations with one key both miss before either stores, both store,
\* different bodies, and the cache holds the later one.
C18_Witness ==
    /\ Len(calls) = 4
    /\ calls[1].ev = "miss" /\ calls[2].ev = "miss"
    /\ calls[1].by # calls[2].by
    /\ calls[1].key = calls[2].key
    /\ calls[3].ev = "store" /\ calls[4].ev = "store"
    /\ calls[3].by # calls[4].by
    /\ calls[3].data # calls[4].data
    /\ DOMAIN apiCache = {calls[1].key}
    /\ Some(apiCache[calls[1].key].data) = calls[4].data

\* ---------------------------------------------------------------------------
\* The fallback of the trend (SpecIndicators)
\* ---------------------------------------------------------------------------

\* C19: the SMA(200) branch of the trend never decides: SMA(200) and the last
\* close are both defined exactly when the series has at least 200 closes,
\* which is exactly when EMA(50) and EMA(200) are both defined; so the trend,
\* when defined, is the comparison of the two EMAs, and it is undefined if and
\* only if there are fewer than 200 candles, the rating then being neutral.
C19_FallbackUnreachable ==
    snap # Null =>
        /\ (Derived.sma200 # Null /\ Derived.lastClose # Null) <=> Len(klines) >= 200
        /\ (Derived.ema50 # Null /\ Derived.ema200 # Null) <=> Len(klines) >= 200
        /\ Derived.trend = Null <=> Len(klines) < 200
        /\ Derived.trend # Null =>
              Derived.trend = (IF FLt(Val(Derived.ema200), Val(Derived.ema50))
                               THEN Some("up") ELSE Some("down"))
        /\ Len(klines) < 200 => Pushed.rating = "neutral"

\* One candle short of 200: EMA(50) is defined, EMA(200) and SMA(200) are
\* not, the trend is undefined and a 24h change of +3 % is rated neutral.
C19_Witness ==
    /\ snap # Null
    /\ Len(klines) = 199
    /\ Derived.ema50 # Null
    /\ Derived.ema200 = Null
    /\ Derived.sma200 = Null
    /\ Derived.lastClose # Null
    /\ Derived.trend = Null
    /\ Pushed.pct24h = Some(Num(3))
    /\ Pushed.rating = "neutral"

====
